---- MODULE Spec2Model ----
(***************************************************************************)
(* Model of comparison_app.py: the DOCX label extractor, the difflib-based *)
(* comparison and the run_structural_validation pipeline.                  *)
(* A Python str is modelled as a sequence of one-character strings.        *)
(***************************************************************************)
EXTENDS Integers, Sequences, FiniteSets, TLC

VARIABLES pc, comparison_file, gemini_api_key, paragraphs, idx, extracted_lines,
          labeled_web_content, report, output_filepath, result, failed_stage

vars == <<pc, comparison_file, gemini_api_key, paragraphs, idx, extracted_lines,
          labeled_web_content, report, output_filepath, result, failed_stage>>

(***************************************************************************)
(* Bounds of the model.                                                    *)
(***************************************************************************)
MaxParaLen == 6

MaxParas == 1

MaxExpected == 2

MaxActual == 2

MaxAlignExpected == 3

MaxAlignActual == 3

MaxRunLines == 2

\* Python's None, for a report, for a file path and for the returned pair
NoReport == [banner |-> "None", rows |-> <<>>]

NoFile == "None"

NotReturned == [output |-> "None", text |-> "None"]

(***************************************************************************)
(* Python str primitives.                                                  *)
(***************************************************************************)
Whitespace == {" ", "\n", "\t"}

Lower == <<"a", "b", "h", "t", "x", "y">>

UpperOf == <<"A", "B", "H", "T", "X", "Y">>

UpperChar(c) ==
  IF \E k \in 1..Len(Lower) : Lower[k] = c
    THEN UpperOf[CHOOSE k \in 1..Len(Lower) : Lower[k] = c]
    ELSE c

upper(s) == [i \in 1..Len(s) |-> UpperChar(s[i])]

lstrip(s) ==
  IF \A i \in 1..Len(s) : s[i] \in Whitespace
    THEN <<>>
    ELSE SubSeq(s, CHOOSE i \in 1..Len(s) :
                     s[i] \notin Whitespace /\ \A j \in 1..(i-1) : s[j] \in Whitespace,
                Len(s))

rstrip(s) ==
  IF \A i \in 1..Len(s) : s[i] \in Whitespace
    THEN <<>>
    ELSE SubSeq(s, 1, CHOOSE i \in 1..Len(s) :
                     s[i] \notin Whitespace /\ \A j \in (i+1)..Len(s) : s[j] \in Whitespace)

strip(s) == rstrip(lstrip(s))

RECURSIVE replace(_, _, _)
replace(s, old, new) ==
  IF s = <<>> THEN <<>>
  ELSE (IF Head(s) = old THEN new ELSE <<Head(s)>>) \o replace(Tail(s), old, new)

\* a search that ignores letter case
contains_nocase(s, x) ==
  \E i \in 0..(Len(s) - Len(x)) : upper(SubSeq(s, i + 1, i + Len(x))) = upper(x)

\* Python's `x in s` for two strings
contains(s, x) ==
  \E i \in 0..(Len(s) - Len(x)) : SubSeq(s, i + 1, i + Len(x)) = x

\* all strings over alphabet A of length at most n
RECURSIVE StringsUpTo(_, _)
StringsUpTo(A, n) ==
  IF n = 0 THEN {<<>>}
  ELSE LET S == StringsUpTo(A, n - 1)
       IN  S \cup {Append(s, c) : s \in {t \in S : Len(t) = n - 1}, c \in A}

RECURSIVE ListsUpTo(_, _)
ListsUpTo(P, n) ==
  IF n = 0 THEN {<<>>}
  ELSE LET S == ListsUpTo(P, n - 1)
       IN  S \cup {Append(s, p) : s \in {t \in S : Len(t) = n - 1}, p \in P}

(***************************************************************************)
(* get_docx_content_and_labels                                             *)
(***************************************************************************)
\* LABEL_PATTERN = ^(.*?)\s*:\s*(.*)$ on a text without line breaks: the
\* lazy group 1 is the shortest prefix after which only whitespace precedes
\* a colon.  The value is the set of lengths of prefixes that let the rest
\* of the pattern match.
LabelPrefixes(text) ==
  {i \in 0..Len(text) :
     \E j \in (i+1)..Len(text) :
        text[j] = ":" /\ \A k \in (i+1)..(j-1) : text[k] \in Whitespace}

LABEL_PATTERN_matches(text) == LabelPrefixes(text) # {}

LabelGroup1Len(text) ==
  CHOOSE i \in LabelPrefixes(text) : \A k \in LabelPrefixes(text) : i <= k

group1(text) == SubSeq(text, 1, LabelGroup1Len(text))

\* group 2: what follows the colon that ended \s*: , less the \s* after it
group2(text) ==
  LET i == LabelGroup1Len(text)
      j == CHOOSE c \in (i+1)..Len(text) :
             text[c] = ":" /\ \A k \in (i+1)..(c-1) : text[k] \in Whitespace
  IN  lstrip(SubSeq(text, j + 1, Len(text)))

raw_label(text) ==
  replace(replace(replace(upper(strip(group1(text))), " ", <<"_">>), "(", <<>>), ")", <<>>)

formatted_label(text) == <<"[">> \o raw_label(text) \o <<"]">>

PARAGRAPH == <<"P", "A", "R", "A", "G", "R", "A", "P", "H">>

LabeledLine(text) == formatted_label(text) \o <<" ">> \o strip(group2(text))

UnlabeledLine(text) == <<"[">> \o PARAGRAPH \o <<"]", " ">> \o text

\* the whole loop body for one paragraph: the lines it appends
ExtractParagraph(p) ==
  LET text == strip(p)
  IN  IF text = <<>> THEN <<>>
      ELSE IF LABEL_PATTERN_matches(text) THEN <<LabeledLine(text)>>
      ELSE <<UnlabeledLine(text)>>

\* the value returned for a readable document
RECURSIVE get_docx_content_and_labels(_)
get_docx_content_and_labels(ps) ==
  IF ps = <<>> THEN <<>>
  ELSE ExtractParagraph(Head(ps)) \o get_docx_content_and_labels(Tail(ps))

\* for p in document.paragraphs: a blank paragraph is skipped
ParagraphBlank ==
  /\ pc = "docx"
  /\ idx <= Len(paragraphs)
  /\ strip(paragraphs[idx]) = <<>>
  /\ idx' = idx + 1
  /\ UNCHANGED <<pc, comparison_file, gemini_api_key, paragraphs, extracted_lines,
                 labeled_web_content, report, output_filepath, result, failed_stage>>

ParagraphLabeled ==
  /\ pc = "docx"
  /\ idx <= Len(paragraphs)
  /\ strip(paragraphs[idx]) # <<>>
  /\ LABEL_PATTERN_matches(strip(paragraphs[idx]))
  /\ extracted_lines' = Append(extracted_lines, LabeledLine(strip(paragraphs[idx])))
  /\ idx' = idx + 1
  /\ UNCHANGED <<pc, comparison_file, gemini_api_key, paragraphs,
                 labeled_web_content, report, output_filepath, result, failed_stage>>

ParagraphUnlabeled ==
  /\ pc = "docx"
  /\ idx <= Len(paragraphs)
  /\ strip(paragraphs[idx]) # <<>>
  /\ ~LABEL_PATTERN_matches(strip(paragraphs[idx]))
  /\ extracted_lines' = Append(extracted_lines, UnlabeledLine(strip(paragraphs[idx])))
  /\ idx' = idx + 1
  /\ UNCHANGED <<pc, comparison_file, gemini_api_key, paragraphs,
                 labeled_web_content, report, output_filepath, result, failed_stage>>

\* return extracted_lines, None
DocxReturn ==
  /\ pc = "docx"
  /\ idx > Len(paragraphs)
  /\ pc' = "compare"
  /\ UNCHANGED <<comparison_file, gemini_api_key, paragraphs, idx, extracted_lines,
                 labeled_web_content, report, output_filepath, result, failed_stage>>

(***************************************************************************)
(* Specification of the extractor alone: every reference document of at    *)
(* most MaxParas paragraphs of at most MaxParaLen characters.              *)
(***************************************************************************)
ExtractAlphabet == {"t", "(", ")", " ", ":"}

InitExtract ==
  /\ pc = "docx"
  /\ comparison_file = TRUE
  /\ gemini_api_key = TRUE
  /\ paragraphs \in ListsUpTo(StringsUpTo(ExtractAlphabet, MaxParaLen), MaxParas)
  /\ idx = 1
  /\ extracted_lines = <<>>
  /\ labeled_web_content = <<>>
  /\ report = NoReport
  /\ output_filepath = NoFile
  /\ result = NotReturned
  /\ failed_stage = "none"

NextExtract == ParagraphBlank \/ ParagraphLabeled \/ ParagraphUnlabeled \/ DocxReturn

SpecExtract == InitExtract /\ [][NextExtract]_vars

(***************************************************************************)
(* The docstring's canonical form of a label written word(tag).            *)
(***************************************************************************)
IsWord(s) == s # <<>> /\ \A i \in 1..Len(s) : \E k \in 1..Len(Lower) : s[i] \in {Lower[k], UpperOf[k]}

\* the <<word, tag>> readings of a label text "word(tag)" or "word (tag)"
WordTagReadings(label) ==
  {wt \in {<<SubSeq(label, 1, i), SubSeq(label, j + 1, Len(label) - 1)>> :
             i \in 1..Len(label), j \in 1..Len(label)} :
     /\ IsWord(wt[1]) /\ IsWord(wt[2])
     /\ \/ label = wt[1] \o <<"(">> \o wt[2] \o <<")">>
        \/ label = wt[1] \o <<" ", "(">> \o wt[2] \o <<")">>}

\* the paragraph the loop has just handled, and whether it appended a line
LastText == strip(paragraphs[idx - 1])

JustAppended == idx > 1 /\ LastText # <<>> /\ extracted_lines # <<>>

LastLine == extracted_lines[Len(extracted_lines)]

StartsWith(s, x) == Len(x) <= Len(s) /\ SubSeq(s, 1, Len(x)) = x

\* C5: a reference line whose label is written word(tag), with or without a
\* space before the parenthesis, is extracted with the token [WORD_TAG]
\* ('title(h1) : Hello People' -> '[TITLE_H1] Hello People').
C5_WordTagToken ==
  (JustAppended /\ LABEL_PATTERN_matches(LastText)) =>
     \A wt \in WordTagReadings(strip(group1(LastText))) :
        StartsWith(LastLine, <<"[">> \o upper(wt[1]) \o <<"_">> \o upper(wt[2]) \o <<"]", " ">>)

\* C6: every non-blank reference line yields a line with a non-empty label;
\* with no colon, or nothing left of the label after canonicalization, the
\* label is PARAGRAPH, so '[]' is never produced.
C6_LabelNonEmpty ==
  JustAppended =>
     /\ ~StartsWith(LastLine, <<"[", "]">>)
     /\ (~LABEL_PATTERN_matches(LastText) \/ raw_label(LastText) = <<>>)
           => StartsWith(LastLine, <<"[">> \o PARAGRAPH \o <<"]">>)

(***************************************************************************)
(* difflib.SequenceMatcher over two sequences (of lines, or of the         *)
(* characters of two lines), with no junk; indices are Python's: 0-based,  *)
(* ranges [lo, hi).  Sequences shorter than 200 elements have no "popular" *)
(* elements either.                                                        *)
(***************************************************************************)
Min(S) == CHOOSE x \in S : \A y \in S : x <= y

Max(S) == CHOOSE x \in S : \A y \in S : x >= y

\* F(v), with v evaluated once
With(v, F(_)) == CHOOSE r \in {F(x) : x \in {v}} : TRUE

\* the length of the block of equal elements that starts at a[i], b[j]
RECURSIVE RunLen(_, _, _, _, _, _)
RunLen(a, b, i, j, ahi, bhi) ==
  IF i < ahi /\ j < bhi /\ a[i + 1] = b[j + 1]
    THEN 1 + RunLen(a, b, i + 1, j + 1, ahi, bhi)
    ELSE 0

\* a matcher that settles on the first common element instead of the
\* longest block
find_first_match(a, alo, ahi, b, blo, bhi) ==
  IF \A i \in alo..(ahi - 1), j \in blo..(bhi - 1) : a[i + 1] # b[j + 1]
    THEN <<alo, blo, 0>>
    ELSE With(Min({i \in alo..(ahi - 1) : \E j \in blo..(bhi - 1) : a[i + 1] = b[j + 1]}),
              LAMBDA besti :
                <<besti, Min({j \in blo..(bhi - 1) : a[besti + 1] = b[j + 1]}), 1>>)

\* the longest block a[i:i+k] == b[j:j+k]; of those the one starting
\* earliest in a, and of those the one starting earliest in b
find_longest_match(a, alo, ahi, b, blo, bhi) ==
  With(Max({0} \cup {RunLen(a, b, i, j, ahi, bhi) :
                       i \in alo..(ahi - 1), j \in blo..(bhi - 1)}),
       LAMBDA bestsize :
         IF bestsize = 0 THEN <<alo, blo, 0>>
         ELSE With(Min({i \in alo..(ahi - 1) :
                          \E j \in blo..(bhi - 1) :
                             RunLen(a, b, i, j, ahi, bhi) = bestsize}),
                   LAMBDA besti :
                     <<besti,
                       Min({j \in blo..(bhi - 1) :
                              RunLen(a, b, besti, j, ahi, bhi) = bestsize}),
                       bestsize>>))

\* the queue of get_matching_blocks, in sorted order
RECURSIVE matching_blocks(_, _, _, _, _, _)
matching_blocks(a, alo, ahi, b, blo, bhi) ==
  With(find_longest_match(a, alo, ahi, b, blo, bhi),
       LAMBDA x :
         IF x[3] = 0 THEN <<>>
         ELSE (IF alo < x[1] /\ blo < x[2]
                 THEN matching_blocks(a, alo, x[1], b, blo, x[2]) ELSE <<>>)
              \o <<x>>
              \o (IF x[1] + x[3] < ahi /\ x[2] + x[3] < bhi
                    THEN matching_blocks(a, x[1] + x[3], ahi, b, x[2] + x[3], bhi)
                    ELSE <<>>))

\* adjacent blocks are collapsed into one
RECURSIVE collapse(_, _)
collapse(blocks, cur) ==
  IF blocks = <<>> THEN (IF cur[3] > 0 THEN <<cur>> ELSE <<>>)
  ELSE With(<<Head(blocks), cur>>,
            LAMBDA nc :
              IF nc[2][1] + nc[2][3] = nc[1][1] /\ nc[2][2] + nc[2][3] = nc[1][2]
                THEN With(<<nc[2][1], nc[2][2], nc[2][3] + nc[1][3]>>,
                          LAMBDA merged : collapse(Tail(blocks), merged))
                ELSE (IF nc[2][3] > 0 THEN <<nc[2]>> ELSE <<>>)
                     \o collapse(Tail(blocks), nc[1]))

get_matching_blocks(a, b) ==
  With(matching_blocks(a, 0, Len(a), b, 0, Len(b)),
       LAMBDA blocks : collapse(blocks, <<0, 0, 0>>) \o <<<<Len(a), Len(b), 0>>>>)

\* opcodes <<tag, i1, i2, j1, j2>> between and for the matching blocks
RECURSIVE opcodes_from(_, _, _)
opcodes_from(blocks, i, j) ==
  IF blocks = <<>> THEN <<>>
  ELSE LET ai == Head(blocks)[1]
           bj == Head(blocks)[2]
           size == Head(blocks)[3]
           tag == IF i < ai /\ j < bj THEN "replace"
                  ELSE IF i < ai THEN "delete"
                  ELSE IF j < bj THEN "insert"
                  ELSE ""
       IN  (IF tag # "" THEN <<<<tag, i, ai, j, bj>>>> ELSE <<>>)
           \o (IF size > 0 THEN <<<<"equal", ai, ai + size, bj, bj + size>>>> ELSE <<>>)
           \o opcodes_from(Tail(blocks), ai + size, bj + size)

get_opcodes(a, b) ==
  With(get_matching_blocks(a, b), LAMBDA blocks : opcodes_from(blocks, 0, 0))

\* the number of matched elements: ratio() is 2.0 * matches / (len a + len b)
RECURSIVE SumSizes(_)
SumSizes(blocks) == IF blocks = <<>> THEN 0 ELSE Head(blocks)[3] + SumSizes(Tail(blocks))

matches(a, b) == SumSizes(get_matching_blocks(a, b))

(***************************************************************************)
(* difflib.Differ().compare(a, b): the delta, a list of strings            *)
(* "<tag> <line>" with tag one of ' ', '-', '+', '?'.                      *)
(***************************************************************************)
RECURSIVE dump(_, _, _, _)
dump(tag, x, lo, hi) ==
  IF lo >= hi THEN <<>>
  ELSE <<<<tag, " ">> \o x[lo + 1]>> \o dump(tag, x, lo + 1, hi)

\* the shorter block is dumped first
plain_replace(a, alo, ahi, b, blo, bhi) ==
  IF bhi - blo < ahi - alo
    THEN dump("+", b, blo, bhi) \o dump("-", a, alo, ahi)
    ELSE dump("-", a, alo, ahi) \o dump("+", b, blo, bhi)

RECURSIVE repeat(_, _)
repeat(c, n) == IF n <= 0 THEN <<>> ELSE <<c>> \o repeat(c, n - 1)

\* the intraline tags of a synched pair of lines: <<atags, btags>>
RECURSIVE line_tags(_)
line_tags(ops) ==
  IF ops = <<>> THEN <<<<>>, <<>>>>
  ELSE With(<<Head(ops), line_tags(Tail(ops))>>,
            LAMBDA x :
              LET op == x[1]
                  la == op[3] - op[2]
                  lb == op[5] - op[4]
                  at == IF op[1] = "replace" THEN repeat("^", la)
                        ELSE IF op[1] = "delete" THEN repeat("-", la)
                        ELSE IF op[1] = "equal" THEN repeat(" ", la)
                        ELSE <<>>
                  bt == IF op[1] = "replace" THEN repeat("^", lb)
                        ELSE IF op[1] = "insert" THEN repeat("+", lb)
                        ELSE IF op[1] = "equal" THEN repeat(" ", lb)
                        ELSE <<>>
              IN  <<at \o x[2][1], bt \o x[2][2]>>)

keep_original_ws(line, tag_s) ==
  [i \in 1..(IF Len(line) < Len(tag_s) THEN Len(line) ELSE Len(tag_s)) |->
     IF tag_s[i] = " " /\ line[i] \in Whitespace THEN line[i] ELSE tag_s[i]]

qformat(aline, bline, atags, btags) ==
  LET at == rstrip(keep_original_ws(aline, atags))
      bt == rstrip(keep_original_ws(bline, btags))
  IN  <<<<"-", " ">> \o aline>>
      \o (IF at # <<>> THEN <<<<"?", " ">> \o at \o <<"\n">>>> ELSE <<>>)
      \o <<<<"+", " ">> \o bline>>
      \o (IF bt # <<>> THEN <<<<"?", " ">> \o bt \o <<"\n">>>> ELSE <<>>)

\* The search loop of _fancy_replace, for j in range(blo, bhi), for i in
\* range(alo, ahi), from its n-th pair on.  st is <<num, den, best_i, best_j,
\* eqi, eqj>>: best_ratio as the fraction num/den (0.74 at first), and -1
\* for an index not set.  ratio() is 2.0 * matches / (len + len); the two
\* quick ratios are upper bounds of it and do not change the outcome.
RECURSIVE search(_, _, _, _, _, _, _, _)
search(a, alo, ahi, b, blo, bhi, n, st) ==
  IF n >= (ahi - alo) * (bhi - blo) THEN st
  ELSE With(<<alo + (n % (ahi - alo)), blo + (n \div (ahi - alo)),
              a[alo + (n % (ahi - alo)) + 1], b[blo + (n \div (ahi - alo)) + 1]>>,
            LAMBDA p :
              With(IF p[3] = p[4]
                     THEN (IF st[5] = -1 THEN <<st[1], st[2], st[3], st[4], p[1], p[2]>>
                           ELSE st)
                   ELSE With(matches(p[3], p[4]),
                             LAMBDA m :
                               IF 2 * m * st[2] > st[1] * (Len(p[3]) + Len(p[4]))
                                 THEN <<2 * m, Len(p[3]) + Len(p[4]), p[1], p[2], st[5], st[6]>>
                                 ELSE st),
                   LAMBDA nst : search(a, alo, ahi, b, blo, bhi, n + 1, nst)))

RECURSIVE fancy_replace(_, _, _, _, _, _)
fancy_helper(a, alo, ahi, b, blo, bhi) ==
  IF alo < ahi
    THEN (IF blo < bhi THEN fancy_replace(a, alo, ahi, b, blo, bhi)
          ELSE dump("-", a, alo, ahi))
    ELSE IF blo < bhi THEN dump("+", b, blo, bhi)
    ELSE <<>>

fancy_replace(a, alo, ahi, b, blo, bhi) ==
  With(search(a, alo, ahi, b, blo, bhi, 0, <<37, 50, -1, -1, -1, -1>>),
       LAMBDA st :
         \* close: not (best_ratio < cutoff), cutoff = 0.75
         IF ~(4 * st[1] >= 3 * st[2]) /\ st[5] = -1
           THEN plain_replace(a, alo, ahi, b, blo, bhi)
           ELSE LET close == 4 * st[1] >= 3 * st[2]
                    best_i == IF close THEN st[3] ELSE st[5]
                    best_j == IF close THEN st[4] ELSE st[6]
                    aelt == a[best_i + 1]
                    belt == b[best_j + 1]
                IN  fancy_helper(a, alo, best_i, b, blo, best_j)
                    \o (IF close
                          THEN With(line_tags(get_opcodes(aelt, belt)),
                                    LAMBDA tags : qformat(aelt, belt, tags[1], tags[2]))
                          ELSE <<<<" ", " ">> \o aelt>>)
                    \o fancy_helper(a, best_i + 1, ahi, b, best_j + 1, bhi))

RECURSIVE compare_ops(_, _, _)
compare_ops(ops, a, b) ==
  IF ops = <<>> THEN <<>>
  ELSE With(Head(ops),
            LAMBDA op :
              IF op[1] = "replace" THEN fancy_replace(a, op[2], op[3], b, op[4], op[5])
              ELSE IF op[1] = "delete" THEN dump("-", a, op[2], op[3])
              ELSE IF op[1] = "insert" THEN dump("+", b, op[4], op[5])
              ELSE dump(" ", a, op[2], op[3]))
       \o compare_ops(Tail(ops), a, b)

Differ_compare(a, b) ==
  With(get_opcodes(a, b), LAMBDA ops : compare_ops(ops, a, b))

(***************************************************************************)
(* compare_texts(expected_lines, actual_text)                              *)
(***************************************************************************)
\* str.splitlines(), for texts whose only line boundary is "\n"
RECURSIVE splitlines(_)
splitlines(text) ==
  IF text = <<>> THEN <<>>
  ELSE IF \E i \in 1..Len(text) : text[i] = "\n"
    THEN LET n == Min({i \in 1..Len(text) : text[i] = "\n"})
         IN  <<SubSeq(text, 1, n - 1)>> \o splitlines(SubSeq(text, n + 1, Len(text)))
    ELSE <<text>>

RECURSIVE strip_nonblank(_)
strip_nonblank(lines) ==
  IF lines = <<>> THEN <<>>
  ELSE (IF strip(Head(lines)) # <<>> THEN <<strip(Head(lines))>> ELSE <<>>)
       \o strip_nonblank(Tail(lines))

\* [line.strip() for line in actual_text.splitlines() if line.strip()]
actual_lines(actual_text) == strip_nonblank(splitlines(actual_text))

\* the end of the match of \[.*?\] at position p of s, or 0: the first "]"
\* after the "[" at p, with no line break in between
LabelEnd(s, p) ==
  IF p <= Len(s) /\ s[p] = "["
       /\ \E j \in (p+1)..Len(s) : s[j] = "]" /\ \A k \in (p+1)..(j-1) : s[k] # "\n"
    THEN Min({j \in (p+1)..Len(s) : s[j] = "]"})
    ELSE 0

\* re.sub(r'^\[.*?\]\s*', '', content).strip()
content_only(content) ==
  strip(IF LabelEnd(content, 1) > 0
          THEN lstrip(SubSeq(content, LabelEnd(content, 1) + 1, Len(content)))
          ELSE content)

\* re.sub(r'\[.*?\]', '', s), scanning from position p
RECURSIVE sub_labels(_, _)
sub_labels(s, p) ==
  IF p > Len(s) THEN <<>>
  ELSE IF LabelEnd(s, p) > 0 THEN sub_labels(s, LabelEnd(s, p) + 1)
  ELSE <<s[p]>> \o sub_labels(s, p + 1)

\* re.sub(r'\[.*?\]', '', actual_text).strip()
actual_content_for_search(actual_text) == strip(sub_labels(actual_text, 1))

\* the diagnosis of a '-' line
details(content, actual_text) ==
  IF content_only(content) # <<>>
       /\ contains(actual_content_for_search(actual_text), content_only(content))
    THEN "STRUCTURAL ERROR"
    ELSE "CONTENT ERROR"

\* a loop that reports the '+' lines as rows too
result_of_any(line, actual_text) ==
  LET prefix == line[1]
      content == strip(SubSeq(line, 3, Len(line)))
  IN  IF content = <<>> THEN <<>>
      ELSE IF prefix = " "
        THEN <<[status |-> "MATCHING", expected |-> content, detail |-> "IDENTICAL"]>>
      ELSE IF prefix \in {"-", "+"}
        THEN <<[status |-> "MISMATCH", expected |-> content,
                detail |-> details(content, actual_text)]>>
      ELSE <<>>

\* the entries one line of the diff adds to comparison_results
result_of(line, actual_text) ==
  LET prefix == line[1]
      content == strip(SubSeq(line, 3, Len(line)))
  IN  IF content = <<>> THEN <<>>
      ELSE IF prefix = " "
        THEN <<[status |-> "MATCHING", expected |-> content, detail |-> "IDENTICAL"]>>
      ELSE IF prefix = "-"
        THEN <<[status |-> "MISMATCH", expected |-> content,
                detail |-> details(content, actual_text)]>>
      ELSE <<>>

\* a loop that counts the '+' lines as mismatches
sets_has_mismatches_extra(line) ==
  strip(SubSeq(line, 3, Len(line))) # <<>> /\ line[1] \in {"-", "+"}

\* whether one line of the diff sets has_mismatches
sets_has_mismatches(line) ==
  strip(SubSeq(line, 3, Len(line))) # <<>> /\ line[1] = "-"

RECURSIVE comparison_results(_, _)
comparison_results(diff, actual_text) ==
  IF diff = <<>> THEN <<>>
  ELSE result_of(Head(diff), actual_text) \o comparison_results(Tail(diff), actual_text)

has_mismatches(diff) == \E n \in 1..Len(diff) : sets_has_mismatches(diff[n])

DisplayLimit == 100

\* item['expected'][:100].replace('\n', ' ') + ('...' if longer)
expected_display(e) ==
  replace(SubSeq(e, 1, IF Len(e) < DisplayLimit THEN Len(e) ELSE DisplayLimit), "\n", <<" ">>)
    \o (IF Len(e) > DisplayLimit THEN <<".", ".", ".">> ELSE <<>>)

output_lines(results) ==
  [n \in 1..Len(results) |->
     [status |-> results[n].status,
      expected |-> expected_display(results[n].expected),
      detail |-> results[n].detail]]

\* the report: its banner and the rows of its table
compare_texts(expected_lines, actual_text) ==
  With(actual_lines(actual_text),
       LAMBDA lines :
         With(Differ_compare(expected_lines, lines),
              LAMBDA diff :
                [banner |-> IF ~has_mismatches(diff) THEN "Perfect Structural Match Found"
                            ELSE "Structural Mismatches Detected",
                 rows |-> output_lines(comparison_results(diff, actual_text))]))

\* 4. Compare DOCX lines against Labeled Web Content
CompareTexts ==
  /\ pc = "compare"
  /\ report' = compare_texts(extracted_lines, labeled_web_content)
  /\ pc' = "save"
  /\ UNCHANGED <<comparison_file, gemini_api_key, paragraphs, idx, extracted_lines,
                 labeled_web_content, output_filepath, result, failed_stage>>

(***************************************************************************)
(* Specification of extraction followed by comparison: reference           *)
(* paragraphs and labeled page lines drawn from pools of short lines.      *)
(***************************************************************************)
RECURSIVE join(_)
join(lines) ==
  IF lines = <<>> THEN <<>>
  ELSE IF Len(lines) = 1 THEN Head(lines)
  ELSE Head(lines) \o <<"\n">> \o join(Tail(lines))

ComparePool ==
  {<<"a", ":", "x">>, <<"a", ":", "X">>, <<"a", " ", ":">>, <<"x">>, <<" ">>}

ActualPool ==
  {<<"[", "A", "]", " ", "x">>, <<"[", "A", "]", " ">>, <<"[", "A", "]", " ", "x", "y">>,
   <<" ", "[", "B", "]", " ", "X">>, <<" ">>}

AlignPool == {<<"a", ":", "x">>, <<"b", ":", "x">>, <<"a", ":", "y">>}

AlignActualPool ==
  {<<"[", "A", "]", " ", "x">>, <<"[", "B", "]", " ", "x">>, <<"[", "A", "]", " ", "y">>}

InitCompare ==
  /\ pc = "docx"
  /\ comparison_file = TRUE
  /\ gemini_api_key = TRUE
  /\ \/ /\ paragraphs \in ListsUpTo(ComparePool, MaxExpected)
        /\ labeled_web_content \in {join(l) : l \in ListsUpTo(ActualPool, MaxActual)}
     \/ /\ paragraphs \in ListsUpTo(AlignPool, MaxAlignExpected)
        /\ labeled_web_content \in {join(l) : l \in ListsUpTo(AlignActualPool, MaxAlignActual)}
  /\ idx = 1
  /\ extracted_lines = <<>>
  /\ report = NoReport
  /\ output_filepath = NoFile
  /\ result = NotReturned
  /\ failed_stage = "none"

NextCompare ==
  ParagraphBlank \/ ParagraphLabeled \/ ParagraphUnlabeled \/ DocxReturn \/ CompareTexts

SpecCompare == InitCompare /\ [][NextCompare]_vars

(***************************************************************************)
(* run_structural_validation(url, comparison_file)                         *)
(***************************************************************************)
\* the message of each stage's error
ErrorMessage ==
  [input |-> "ERROR: Please upload a DOCX file for comparison.",
   fetch |-> "ERROR: Could not fetch URL.",
   key |-> "FATAL ERROR: GEMINI_API_KEY environment variable not set.",
   api |-> "ERROR: Gemini API failed.",
   unexpected |-> "ERROR: An unexpected error occurred",
   docx |-> "ERROR: Failed to read DOCX file."]

\* return None, <message>
ReturnError(stage) ==
  /\ result' = [output |-> NoFile, text |-> ErrorMessage[stage]]
  /\ failed_stage' = stage
  /\ pc' = "done"
  /\ UNCHANGED <<comparison_file, gemini_api_key, paragraphs, idx, extracted_lines,
                 labeled_web_content, report, output_filepath>>

\* if not comparison_file: return None, "ERROR: Please upload ..."
NoComparisonFile ==
  /\ pc = "start"
  /\ ~comparison_file
  /\ ReturnError("input")

\* requests.get(url, headers=headers, timeout=15) is sent
FetchCall ==
  /\ pc = "start"
  /\ comparison_file
  /\ pc' = "fetching"
  /\ UNCHANGED <<comparison_file, gemini_api_key, paragraphs, idx, extracted_lines,
                 labeled_web_content, report, output_filepath, result, failed_stage>>

\* the server answers with a page: return visible_text, None
FetchRespond ==
  /\ pc = "fetching"
  /\ pc' = "label"
  /\ UNCHANGED <<comparison_file, gemini_api_key, paragraphs, idx, extracted_lines,
                 labeled_web_content, report, output_filepath, result, failed_stage>>

\* a connection error or raise_for_status(): a RequestException
FetchError ==
  /\ pc = "fetching"
  /\ ReturnError("fetch")

\* no answer within timeout=15: requests.exceptions.Timeout, a RequestException
FetchTimeout ==
  /\ pc = "fetching"
  /\ ReturnError("fetch")

\* if not os.getenv("GEMINI_API_KEY"): return None, "FATAL ERROR: ..."
LabelNoKey ==
  /\ pc = "label"
  /\ ~gemini_api_key
  /\ ReturnError("key")

\* client.models.generate_content(model=MODEL_NAME, contents=prompt) is sent;
\* the call carries no timeout
LabelCall ==
  /\ pc = "label"
  /\ gemini_api_key
  /\ pc' = "labeling"
  /\ UNCHANGED <<comparison_file, gemini_api_key, paragraphs, idx, extracted_lines,
                 labeled_web_content, report, output_filepath, result, failed_stage>>

RunActualPool == {<<"[", "A", "]", " ", "x">>, <<"[", "B", "]", " ", "x">>}

\* the service answers: return response.text.strip(), None
LabelRespond ==
  /\ pc = "labeling"
  /\ \E l \in ListsUpTo(RunActualPool, MaxRunLines) : labeled_web_content' = strip(join(l))
  /\ pc' = "docx"
  /\ UNCHANGED <<comparison_file, gemini_api_key, paragraphs, idx, extracted_lines,
                 report, output_filepath, result, failed_stage>>

\* a run that does not return on error_gemini
LabelApiError_continues ==
  /\ pc = "labeling"
  /\ failed_stage' = "api"
  /\ pc' = "docx"
  /\ UNCHANGED <<comparison_file, gemini_api_key, paragraphs, idx, extracted_lines,
                 labeled_web_content, report, output_filepath, result>>

\* except APIError
LabelApiError ==
  /\ pc = "labeling"
  /\ ReturnError("api")

\* except Exception
LabelException ==
  /\ pc = "labeling"
  /\ ReturnError("unexpected")

\* Document(docx_filepath) raises: except Exception
DocxFail ==
  /\ pc = "docx"
  /\ idx = 1
  /\ ReturnError("docx")

\* 5. create_labeled_docx_output(labeled_web_content) writes the file
SaveLabeledContent ==
  /\ pc = "save"
  /\ output_filepath' = "scraped_labeled_web_content.txt"
  /\ pc' = "return"
  /\ UNCHANGED <<comparison_file, gemini_api_key, paragraphs, idx, extracted_lines,
                 labeled_web_content, report, result, failed_stage>>

\* 6. return output_filepath, validation_report_markdown
ReturnReport ==
  /\ pc = "return"
  /\ result' = [output |-> output_filepath, text |-> "validation_report_markdown"]
  /\ pc' = "done"
  /\ UNCHANGED <<comparison_file, gemini_api_key, paragraphs, idx, extracted_lines,
                 labeled_web_content, report, output_filepath, failed_stage>>

RunPool == {<<"a", ":", "x">>, <<"b", ":", "x">>, <<"x">>, <<" ">>}

Init ==
  /\ pc = "start"
  /\ comparison_file \in BOOLEAN
  /\ gemini_api_key \in BOOLEAN
  /\ paragraphs \in ListsUpTo(RunPool, MaxRunLines)
  /\ idx = 1
  /\ extracted_lines = <<>>
  /\ labeled_web_content = <<>>
  /\ report = NoReport
  /\ output_filepath = NoFile
  /\ result = NotReturned
  /\ failed_stage = "none"

\* the steps the program takes by itself, the expiry of the fetch timeout
\* included
ProgramStep ==
  \/ NoComparisonFile
  \/ FetchCall
  \/ FetchTimeout
  \/ LabelNoKey
  \/ LabelCall
  \/ ParagraphBlank
  \/ ParagraphLabeled
  \/ ParagraphUnlabeled
  \/ DocxReturn
  \/ CompareTexts
  \/ SaveLabeledContent
  \/ ReturnReport

\* what the web server, the labeling service and the file system may do
EnvironmentStep ==
  \/ FetchRespond
  \/ FetchError
  \/ LabelRespond
  \/ LabelApiError
  \/ LabelException
  \/ DocxFail

Next == ProgramStep \/ EnvironmentStep

Spec == Init /\ [][Next]_vars

\* the program's own steps are taken when they can be; the environment
\* owes no answer
FairSpec == Spec /\ WF_vars(ProgramStep)

\* C1: once a stage has failed (no reference file, fetch, labeling or DOCX
\* read), compare_texts is not called and no file is written: the run has
\* returned (None, the message of the failing stage), with no report and no
\* artifact in any later state.
C1_ErrorShortCircuits ==
  failed_stage # "none" =>
     /\ pc = "done"
     /\ report = NoReport
     /\ output_filepath = NoFile
     /\ result = [output |-> NoFile, text |-> ErrorMessage[failed_stage]]

C1_Witness ==
  /\ failed_stage = "docx"
  /\ pc = "done"
  /\ labeled_web_content # <<>>
  /\ paragraphs # <<>>

\* C10: every run ends, with a report or with an error message, also when
\* the web server or the labeling service never answers.
C10_RunTerminates == <>(pc = "done")

(***************************************************************************)
(* Properties of the comparison.                                           *)
(***************************************************************************)
Compared == report # NoReport

Rows == report.rows

ActualLines == actual_lines(labeled_web_content)

RECURSIVE CountStatus(_, _)
CountStatus(rows, st) ==
  IF rows = <<>> THEN 0
  ELSE (IF Head(rows).status = st THEN 1 ELSE 0) + CountStatus(Tail(rows), st)

\* the [LABEL] token a line starts with (empty when it has none)
LabelOf(line) == SubSeq(line, 1, LabelEnd(line, 1))

\* x occurs in s, character for character
OccursIn(s, x) ==
  \E i \in 1..(Len(s) - Len(x) + 1) : \A d \in 1..Len(x) : s[i + d - 1] = x[d]

\* C2: one row per expected line, MATCHING or MISMATCH, in the order of the
\* expected lines, and none for a line that only the actual text has.
C2_OneRowPerExpectedLine ==
  Compared =>
     /\ Len(Rows) = Len(extracted_lines)
     /\ \A n \in 1..Len(Rows) :
           /\ Rows[n].status \in {"MATCHING", "MISMATCH"}
           /\ Rows[n].expected = expected_display(strip(extracted_lines[n]))

C2_Witness ==
  /\ Compared
  /\ Len(extracted_lines) = 2
  /\ Rows[1].status = "MISMATCH"
  /\ Rows[2].status = "MATCHING"
  /\ \E n \in 1..Len(ActualLines) :
        \A k \in 1..Len(extracted_lines) : ActualLines[n] # strip(extracted_lines[k])

\* C7: the banner is the pass banner iff every row is MATCHING and the
\* mismatch banner iff some row is MISMATCH; lines only in the actual text
\* do not change it: no expected line gives no row and the pass banner.
C7_BannerIffMismatchRow ==
  Compared =>
     /\ report.banner = "Perfect Structural Match Found"
           <=> \A n \in 1..Len(Rows) : Rows[n].status = "MATCHING"
     /\ report.banner = "Structural Mismatches Detected"
           <=> \E n \in 1..Len(Rows) : Rows[n].status = "MISMATCH"
     /\ extracted_lines = <<>>
           => Rows = <<>> /\ report.banner = "Perfect Structural Match Found"

C7_Witness ==
  /\ Compared
  /\ extracted_lines = <<>>
  /\ ActualLines # <<>>
  /\ Rows = <<>>
  /\ report.banner = "Perfect Structural Match Found"

(***************************************************************************)
(* The normalized key of the specification: lowercased, characters outside *)
(* [a-z0-9] and whitespace removed, whitespace collapsed and trimmed.      *)
(***************************************************************************)
LowerChar(c) ==
  IF \E k \in 1..Len(UpperOf) : UpperOf[k] = c
    THEN Lower[CHOOSE k \in 1..Len(UpperOf) : UpperOf[k] = c]
    ELSE c

KeyChars == {Lower[k] : k \in 1..Len(Lower)} \cup {"0", "1", "2", "3", "4", "5", "6", "7", "8", "9"}

RECURSIVE KeepKeyChars(_)
KeepKeyChars(s) ==
  IF s = <<>> THEN <<>>
  ELSE (IF LowerChar(Head(s)) \in KeyChars THEN <<LowerChar(Head(s))>>
        ELSE IF Head(s) \in Whitespace THEN <<" ">>
        ELSE <<>>) \o KeepKeyChars(Tail(s))

RECURSIVE CollapseSpaces(_)
CollapseSpaces(s) ==
  IF Len(s) < 2 THEN s
  ELSE IF s[1] = " " /\ s[2] = " " THEN CollapseSpaces(Tail(s))
  ELSE <<Head(s)>> \o CollapseSpaces(Tail(s))

NormalizedKey(s) == strip(CollapseSpaces(KeepKeyChars(s)))

\* the stripped actual text of the diagnosis
StrippedActual == strip(sub_labels(labeled_web_content, 1))

\* C3 (as claimed): a deleted expected line is diagnosed structural iff the
\* normalized key of its content is a substring of the normalized actual
\* text without its [LABEL] tokens, so case and punctuation do not matter.
C3_NormalizedDiagnosis ==
  Compared =>
     \A n \in 1..Len(Rows) :
        Rows[n].status = "MISMATCH" =>
           (Rows[n].detail = "STRUCTURAL ERROR"
              <=> OccursIn(NormalizedKey(StrippedActual),
                           NormalizedKey(content_only(Rows[n].expected))))

\* C3 (amended): a deleted expected line is diagnosed structural iff its
\* content (the line without its leading label, trimmed) is not empty and
\* occurs character for character, case and punctuation included, in the
\* actual text without its [LABEL] tokens; it is a content mismatch otherwise.
C3_ExactDiagnosis ==
  Compared =>
     \A n \in 1..Len(Rows) :
        Rows[n].status = "MISMATCH" =>
           /\ Rows[n].detail \in {"STRUCTURAL ERROR", "CONTENT ERROR"}
           /\ Rows[n].detail = "STRUCTURAL ERROR"
                <=> /\ content_only(Rows[n].expected) # <<>>
                    /\ OccursIn(StrippedActual, content_only(Rows[n].expected))

\* a line is diagnosed as a content mismatch although it differs from the
\* page's content in letter case only
C3_Witness ==
  /\ Compared
  /\ \E n \in 1..Len(Rows) :
        /\ Rows[n].detail = "CONTENT ERROR"
        /\ content_only(Rows[n].expected) # <<>>
        /\ OccursIn(NormalizedKey(StrippedActual),
                    NormalizedKey(content_only(Rows[n].expected)))
  /\ \E n \in 1..Len(Rows) : Rows[n].detail = "STRUCTURAL ERROR"

\* C4: the structural diagnosis of an expected line '[L] c' is given only
\* when the actual text has a line of content c under a label other than L
\* (not for c inside a longer line, not for c under L itself).
C4_StructuralMeansOtherLabel ==
  Compared =>
     \A n \in 1..Len(Rows) :
        Rows[n].detail = "STRUCTURAL ERROR" =>
           \E k \in 1..Len(ActualLines) :
              /\ content_only(ActualLines[k]) = content_only(Rows[n].expected)
              /\ LabelOf(ActualLines[k]) # LabelOf(Rows[n].expected)

\* the length of a longest common subsequence of two sequences
RECURSIVE LCSLen(_, _)
LCSLen(a, b) ==
  IF a = <<>> \/ b = <<>> THEN 0
  ELSE IF Head(a) = Head(b) THEN 1 + LCSLen(Tail(a), Tail(b))
  ELSE LET x == LCSLen(Tail(a), b)
           y == LCSLen(a, Tail(b))
       IN  IF x >= y THEN x ELSE y

\* the length of the longest run of consecutive lines the two sequences share
LongestCommonRun(a, b) ==
  Max({0} \cup {k \in 1..Len(a) :
                  \E i \in 0..(Len(a) - k), j \in 0..(Len(b) - k) :
                     \A d \in 1..k : a[i + d] = b[j + d]})

\* C8 (as claimed): the MATCHING rows are as many as a longest common
\* subsequence of the expected and the actual lines is long.
C8_MatchesAreLCS ==
  Compared => CountStatus(Rows, "MATCHING") = LCSLen(extracted_lines, ActualLines)

\* x is a subsequence of y
RECURSIVE IsSubsequence(_, _)
IsSubsequence(x, y) ==
  IF x = <<>> THEN TRUE
  ELSE IF y = <<>> THEN FALSE
  ELSE IF Head(x) = Head(y) THEN IsSubsequence(Tail(x), Tail(y))
  ELSE IsSubsequence(x, Tail(y))

RECURSIVE MatchingTexts(_)
MatchingTexts(rows) ==
  IF rows = <<>> THEN <<>>
  ELSE (IF Head(rows).status = "MATCHING" THEN <<Head(rows).expected>> ELSE <<>>)
       \o MatchingTexts(Tail(rows))

\* C8 (amended): the alignment is difflib's recursive longest-matching-block
\* alignment, which is not always a longest common subsequence: the MATCHING
\* rows are, in order, lines of the actual text (a common subsequence), at
\* most as many as a longest common subsequence and, below difflib's
\* 200-line threshold for popular lines, at least as many as the longest run
\* of consecutive lines common to both sequences.
C8_MatchesBetweenRunAndLCS ==
  Compared =>
     /\ IsSubsequence(MatchingTexts(Rows), ActualLines)
     /\ CountStatus(Rows, "MATCHING") <= LCSLen(extracted_lines, ActualLines)
     /\ CountStatus(Rows, "MATCHING") >= LongestCommonRun(extracted_lines, ActualLines)

C8_Witness ==
  /\ Compared
  /\ CountStatus(Rows, "MATCHING") >= 1
  /\ CountStatus(Rows, "MATCHING") < LCSLen(extracted_lines, ActualLines)

\* C9: a single expected line with a label and empty content is reported as
\* MATCHING when the actual text has a line with that label and no content.
C9_EmptyContentMatches ==
  (/\ Compared
   /\ Len(extracted_lines) = 1
   /\ content_only(extracted_lines[1]) = <<>>
   /\ \E k \in 1..Len(ActualLines) :
         /\ LabelOf(ActualLines[k]) = LabelOf(extracted_lines[1])
         /\ content_only(ActualLines[k]) = <<>>)
  => Rows[1].status = "MATCHING"

====
